---- MODULE Spec2Model ----
(***************************************************************************)
(* Model of the notes manager view (src/notes_frontend/src/App.js): the    *)
(* React state of App, its event handlers, and the Supabase calls they     *)
(* issue.  A store call is in flight from the handler's await until its    *)
(* continuation runs; the table executes the request at some moment in     *)
(* between.  A handler closes over the state of the render it was created  *)
(* in, so a call record keeps the values the continuation will read.       *)
(*                                                                         *)
(* Text is a sequence of one-character strings, so that trim, toLowerCase  *)
(* and includes are computed and not assumed.                              *)
(***************************************************************************)
EXTENDS Integers, Sequences, FiniteSets, TLC

VARIABLES
    SUPABASE_URL,   \* process.env.REACT_APP_SUPABASE_URL: Undefined or a value
    SUPABASE_KEY,   \* process.env.REACT_APP_SUPABASE_KEY: Undefined or a value
    importPending,  \* the dynamic import of the SDK has not resolved yet
    supabase,       \* FALSE is null, TRUE is the client
    notes,          \* the in-memory list
    selectedId,     \* NoId is null
    search,
    loading,
    form,           \* the draft
    isEditing,
    errorMsg,
    table,          \* the remote notes table: a set of rows
    nextId,         \* the id the table assigns to the next inserted row
    now,            \* the clock (table's now() and the client's new Date())
    calls,          \* number of store calls issued so far
    pending         \* store calls in flight

vars == <<SUPABASE_URL, SUPABASE_KEY, importPending, supabase, notes, selectedId,
          search, loading, form, isEditing, errorMsg, table, nextId, now, calls,
          pending>>

view == <<notes, selectedId, search, loading, form, isEditing, errorMsg>>
env == <<SUPABASE_URL, SUPABASE_KEY, importPending, supabase>>
store == <<table, nextId>>

(***************************************************************************)
(* Bounds                                                                  *)
(***************************************************************************)
\* store calls issued in one run (the initial fetch is one of them)
MaxCalls == 3
\* rows in the remote table when the page is opened
InitialRows == 1

(***************************************************************************)
(* Values                                                                  *)
(***************************************************************************)
Undefined == <<"undefined">>
NullStr == <<"null">>
NoId == 0

Present == <<"s", "e", "t">>

TitleRequired == "Title is required."
StoreErrorMessage == "error.message"

\* what the user types into the title input, the body textarea and the search box
TypedTitles == {<<" ">>, <<"A", "b">>}
TypedBodies == {<<"B", "a">>}
TypedSearches == {<< >>, <<"a", "B">>}

\* the rows another session left in the table
SeedRow(i) ==
    IF i % 2 = 1
    THEN [id |-> i, title |-> <<"b", " ">>, body |-> NullStr, updated_at |-> i]
    ELSE [id |-> i, title |-> <<"B">>, body |-> <<"x", "A", "b">>, updated_at |-> i]


Rows == {SeedRow(i) : i \in 1..InitialRows}

(***************************************************************************)
(* String functions of the JavaScript runtime, on sequences of characters  *)
(***************************************************************************)
IsSpace(ch) == ch = " "

RECURSIVE trimStart(_)
trimStart(s) ==
    IF s = << >> THEN << >>
    ELSE IF IsSpace(Head(s)) THEN trimStart(Tail(s)) ELSE s

RECURSIVE trimEnd(_)
trimEnd(s) ==
    IF s = << >> THEN << >>
    ELSE IF IsSpace(s[Len(s)]) THEN trimEnd(SubSeq(s, 1, Len(s) - 1)) ELSE s

trim(s) == trimEnd(trimStart(s))

LowerChar(ch) ==
    CASE ch = "A" -> "a"
      [] ch = "B" -> "b"
      [] OTHER -> ch

toLowerCase(s) == [i \in 1..Len(s) |-> LowerChar(s[i])]

\* s.includes(t): scan s for the first position where t starts
RECURSIVE includes(_, _)
includes(s, t) ==
    IF Len(t) > Len(s) THEN FALSE
    ELSE IF SubSeq(s, 1, Len(t)) = t THEN TRUE
    ELSE includes(Tail(s), t)

\* x || "" for a text column
OrEmpty(x) == IF x = NullStr \/ x = Undefined \/ x = << >> THEN << >> ELSE x

\* !x for a string: the empty string is falsy
Falsy(s) == s = << >>

(***************************************************************************)
(* Derived values of a render                                              *)
(***************************************************************************)
\* the search string compared as typed
NoteMatches_CaseSensitive(note, s) ==
    \/ includes(toLowerCase(note.title), s)
    \/ includes(toLowerCase(OrEmpty(note.body)), s)

NoteMatches(note, s) ==
    \/ includes(toLowerCase(note.title), toLowerCase(s))
    \/ includes(toLowerCase(OrEmpty(note.body)), toLowerCase(s))

Filter(list, s) == SelectSeq(list, LAMBDA note : NoteMatches(note, s))

filteredNotes == Filter(notes, search)

Range(seq) == {seq[i] : i \in 1..Len(seq)}

Ids(list) == {list[i].id : i \in 1..Len(list)}

\* notes.find((n) => n.id === selectedId): the first match, or none
Find(list, id) ==
    LET hits == {i \in 1..Len(list) : list[i].id = id}
    IN IF hits = {} THEN {} ELSE {list[CHOOSE i \in hits : \A j \in hits : i <= j]}

current == Find(notes, selectedId)

\* the notes whose row is rendered in the sidebar
Listed == IF loading THEN {} ELSE Range(filteredNotes)

\* the note shown in the detail pane, with its Edit and Delete buttons
Shown == IF isEditing THEN {} ELSE current

FormBody(f) == IF "body" \in DOMAIN f THEN f.body ELSE Undefined


(***************************************************************************)
(* The remote table, as the SDK's query builders use it                    *)
(***************************************************************************)
\* .order("updated_at", { ascending: false })
RECURSIVE OrderDesc(_)
OrderDesc(rows) ==
    IF rows = {} THEN << >>
    ELSE LET top == CHOOSE r \in rows :
                        \A q \in rows : q.updated_at < r.updated_at
                                        \/ (q.updated_at = r.updated_at /\ q.id <= r.id)
         IN <<top>> \o OrderDesc(rows \ {top})

\* .insert([{ title, body }]): the table assigns id and updated_at
InsertedRow(c) ==
    [id |-> nextId,
     title |-> c.title,
     body |-> IF c.body = Undefined THEN NullStr ELSE c.body,
     updated_at |-> now + 1]

\* .update({ title, body, updated_at }).eq("id", selectedId)
UpdatedRow(r, c) == [r EXCEPT !.title = c.title, !.body = c.body, !.updated_at = c.ts]

Matching(id) == {r \in table : r.id = id}

(***************************************************************************)
(* A store call in flight.  notes and sel are the values of the render the *)
(* handler was created in; done says the table has executed the request.   *)
(***************************************************************************)
Call(kind, cnotes, sel, id, title, body, ts) ==
    [n |-> calls + 1, kind |-> kind, notes |-> cnotes, sel |-> sel, id |-> id,
     title |-> title, body |-> body, ts |-> ts,
     done |-> FALSE, error |-> FALSE, data |-> << >>]

Issue(c) ==
    /\ calls < MaxCalls
    /\ calls' = calls + 1
    /\ pending' = pending \cup {c}

Answer(c, err, data) ==
    pending' = (pending \ {c}) \cup {[c EXCEPT !.done = TRUE, !.error = err, !.data = data]}

(***************************************************************************)
(* Initial state: useState defaults, before the SDK is imported            *)
(***************************************************************************)
Init ==
    /\ SUPABASE_URL \in {Undefined, Present}
    /\ SUPABASE_KEY \in {Undefined, Present}
    /\ importPending = TRUE
    /\ supabase = FALSE
    /\ notes = << >>
    /\ selectedId = NoId
    /\ search = << >>
    /\ loading = TRUE
    /\ form = [title |-> << >>, body |-> << >>]
    /\ isEditing = FALSE
    /\ errorMsg = ""
    /\ table = Rows
    /\ nextId = InitialRows + 1
    /\ now = InitialRows
    /\ calls = 0
    /\ pending = {}

(***************************************************************************)
(* useSupabase and the fetchNotes effect                                   *)
(***************************************************************************)
\* createClient(url, key) of the SDK throws when either argument is missing
createClientThrows == Falsy(OrEmpty(SUPABASE_URL)) \/ Falsy(OrEmpty(SUPABASE_KEY))

\* the import resolves; with a client, the effect on [supabase] starts fetchNotes
ImportResolved ==
    /\ importPending
    /\ importPending' = FALSE
    /\ IF createClientThrows
       THEN /\ UNCHANGED <<supabase, loading, calls, pending>>
       ELSE /\ supabase' = TRUE
            /\ loading' = TRUE
            /\ Issue(Call("list", << >>, NoId, NoId, << >>, << >>, 0))
    /\ UNCHANGED <<SUPABASE_URL, SUPABASE_KEY, notes, selectedId, search, form,
                   isEditing, errorMsg, table, nextId, now>>

\* fetchNotes returning as soon as it has reported the error
FetchNotesDone_ReturnsOnError(c) ==
    /\ c.kind = "list" /\ c.done
    /\ pending' = pending \ {c}
    /\ IF c.error
       THEN /\ errorMsg' = StoreErrorMessage
            /\ UNCHANGED <<notes, loading>>
       ELSE /\ notes' = c.data
            /\ loading' = FALSE
            /\ UNCHANGED errorMsg
    /\ UNCHANGED <<env, selectedId, search, form, isEditing, store, now, calls>>

\* fetchNotes after its await
FetchNotesDone(c) ==
    /\ c.kind = "list" /\ c.done
    /\ pending' = pending \ {c}
    /\ IF c.error
       THEN /\ errorMsg' = StoreErrorMessage
            /\ UNCHANGED notes
       ELSE /\ notes' = c.data
            /\ UNCHANGED errorMsg
    /\ loading' = FALSE
    /\ UNCHANGED <<env, selectedId, search, form, isEditing, store, now, calls>>


(***************************************************************************)
(* handleAddNote                                                           *)
(***************************************************************************)
\* [...notes, data[0]]
AddedNotes_Appends(c) == c.notes \o <<c.data[1]>>

\* [data[0], ...notes], with the notes of the render that submitted
AddedNotes(c) == <<c.data[1]>> \o c.notes

\* { title: "", content: "" }
ClearedForm == [title |-> << >>, content |-> << >>]

\* !form.title
TitleMissing_NoTrim(f) == Falsy(f.title)

\* !form.title.trim()
TitleMissing(f) == Falsy(trim(f.title))

\* handleAddNote without its test of the client
HandleAddNote_NoClientCheck ==
    /\ isEditing
    /\ selectedId = NoId
    /\ IF TitleMissing(form)
       THEN /\ errorMsg' = TitleRequired
            /\ UNCHANGED <<calls, pending>>
       ELSE /\ errorMsg' = ""
            /\ Issue(Call("insert", notes, selectedId, NoId,
                          form.title, FormBody(form), 0))
    /\ UNCHANGED <<env, notes, selectedId, search, loading, form, isEditing, store, now>>

\* the form is rendered while isEditing; onSubmit is handleAddNote when
\* selectedId is falsy
HandleAddNote ==
    /\ isEditing
    /\ selectedId = NoId
    /\ IF TitleMissing(form)
       THEN /\ errorMsg' = TitleRequired
            /\ UNCHANGED <<calls, pending>>
       ELSE /\ errorMsg' = ""
            /\ IF ~supabase
               THEN UNCHANGED <<calls, pending>>
               ELSE /\ Issue(Call("insert", notes, selectedId, NoId,
                                  form.title, FormBody(form), 0))
    /\ UNCHANGED <<env, notes, selectedId, search, loading, form, isEditing, store, now>>

\* handleAddNote after its await
HandleAddNoteDone(c) ==
    /\ c.kind = "insert" /\ c.done
    /\ pending' = pending \ {c}
    /\ IF c.error
       THEN /\ errorMsg' = StoreErrorMessage
            /\ UNCHANGED <<notes, form, selectedId, isEditing>>
       ELSE /\ notes' = AddedNotes(c)
            /\ form' = ClearedForm
            /\ selectedId' = c.data[1].id
            /\ isEditing' = FALSE
            /\ UNCHANGED errorMsg
    /\ UNCHANGED <<env, search, loading, store, now, calls>>

(***************************************************************************)
(* handleEditNote, handleSelectNote, handleFormChange, New Note, Cancel    *)
(***************************************************************************)
DraftOf(note) == [title |-> note.title, body |-> note.body]

\* handleEditNote without setSelectedId(note.id)
HandleEditNote_KeepsSelection(note) ==
    /\ note \in Listed \cup Shown
    /\ isEditing' = TRUE
    /\ form' = DraftOf(note)
    /\ UNCHANGED <<env, notes, selectedId, search, loading, errorMsg, store, now,
                   calls, pending>>

HandleEditNote(note) ==
    /\ note \in Listed \cup Shown
    /\ isEditing' = TRUE
    /\ selectedId' = note.id
    /\ form' = DraftOf(note)
    /\ UNCHANGED <<env, notes, search, loading, errorMsg, store, now, calls, pending>>

HandleSelectNote(note) ==
    /\ note \in Listed
    /\ selectedId' = note.id
    /\ isEditing' = FALSE
    /\ form' = DraftOf(note)
    /\ UNCHANGED <<env, notes, search, loading, errorMsg, store, now, calls, pending>>

\* setForm((f) => ({ ...f, [e.target.name]: e.target.value }))
HandleFormChange(name, value) ==
    /\ isEditing
    /\ form' = [k \in DOMAIN form \cup {name} |-> IF k = name THEN value ELSE form[k]]
    /\ form' # form
    /\ UNCHANGED <<env, notes, selectedId, search, loading, isEditing, errorMsg,
                   store, now, calls, pending>>

NewNote ==
    /\ selectedId' = NoId
    /\ form' = [title |-> << >>, body |-> << >>]
    /\ isEditing' = TRUE
    /\ UNCHANGED <<env, notes, search, loading, errorMsg, store, now, calls, pending>>

Cancel ==
    /\ isEditing
    /\ isEditing' = FALSE
    /\ errorMsg' = ""
    /\ UNCHANGED <<env, notes, selectedId, search, loading, form, store, now, calls, pending>>

\* a search that also drops the selection
SetSearch_ClearsSelection(s) ==
    /\ s # search
    /\ search' = s
    /\ selectedId' = NoId
    /\ UNCHANGED <<env, notes, loading, form, isEditing, errorMsg,
                   store, now, calls, pending>>

\* onChange of the search input
SetSearch(s) ==
    /\ s # search
    /\ search' = s
    /\ UNCHANGED <<env, notes, selectedId, loading, form, isEditing, errorMsg,
                   store, now, calls, pending>>


(***************************************************************************)
(* handleUpdateNote                                                        *)
(***************************************************************************)
\* { ...n, ...d }: the fields of d over those of n
Spread(n, d) == [k \in DOMAIN n \cup DOMAIN d |-> IF k \in DOMAIN d THEN d[k] ELSE n[k]]

\* the merge applied to every note of the list
MergedNotes_Every(prev, c) ==
    [i \in 1..Len(prev) |->
        IF c.data = << >> THEN prev[i] ELSE Spread(prev[i], c.data[1])]

\* prev.map((n) => (n.id === selectedId ? { ...n, ...data[0] } : n)); spreading
\* data[0] of an empty data adds nothing
MergedNotes(prev, c) ==
    [i \in 1..Len(prev) |->
        IF prev[i].id = c.sel
        THEN IF c.data = << >> THEN prev[i] ELSE Spread(prev[i], c.data[1])
        ELSE prev[i]]

\* onSubmit is handleUpdateNote when selectedId is truthy
HandleUpdateNote ==
    /\ isEditing
    /\ selectedId # NoId
    /\ IF TitleMissing(form)
       THEN /\ errorMsg' = TitleRequired
            /\ UNCHANGED <<calls, pending, now>>
       ELSE /\ errorMsg' = ""
            /\ IF ~supabase
               THEN UNCHANGED <<calls, pending, now>>
               ELSE /\ now' = now + 1
                    /\ Issue(Call("update", << >>, selectedId, NoId,
                                  form.title, FormBody(form), now + 1))
    /\ UNCHANGED <<env, notes, selectedId, search, loading, form, isEditing, store>>

\* handleUpdateNote closing the editor whatever the answer
HandleUpdateNoteDone_AlwaysCloses(c) ==
    /\ c.kind = "update" /\ c.done
    /\ pending' = pending \ {c}
    /\ IF c.error
       THEN /\ errorMsg' = StoreErrorMessage
            /\ UNCHANGED notes
       ELSE /\ notes' = MergedNotes(notes, c)
            /\ UNCHANGED errorMsg
    /\ isEditing' = FALSE
    /\ UNCHANGED <<env, selectedId, search, loading, form, store, now, calls>>

\* handleUpdateNote after its await
HandleUpdateNoteDone(c) ==
    /\ c.kind = "update" /\ c.done
    /\ pending' = pending \ {c}
    /\ IF c.error
       THEN /\ errorMsg' = StoreErrorMessage
            /\ UNCHANGED <<notes, isEditing>>
       ELSE /\ notes' = MergedNotes(notes, c)
            /\ isEditing' = FALSE
            /\ UNCHANGED errorMsg
    /\ UNCHANGED <<env, selectedId, search, loading, form, store, now, calls>>

(***************************************************************************)
(* handleDeleteNote                                                        *)
(***************************************************************************)
\* the filter with its test inverted
RemainingNotes_Inverted(prev, id) == SelectSeq(prev, LAMBDA n : n.id = id)

\* prev.filter((n) => n.id !== id)
RemainingNotes(prev, id) == SelectSeq(prev, LAMBDA n : n.id # id)

\* the Delete button of a listed note or of the shown note; confirmed is the
\* answer to window.confirm
HandleDeleteNote(note, confirmed) ==
    /\ note \in Listed \cup Shown
    /\ IF ~supabase
       THEN UNCHANGED <<calls, pending>>
       ELSE IF ~confirmed
       THEN UNCHANGED <<calls, pending>>
       ELSE Issue(Call("delete", << >>, selectedId, note.id, << >>, << >>, 0))
    /\ UNCHANGED <<env, view, store, now>>

\* handleDeleteNote after its await
HandleDeleteNoteDone(c) ==
    /\ c.kind = "delete" /\ c.done
    /\ pending' = pending \ {c}
    /\ IF c.error
       THEN /\ errorMsg' = StoreErrorMessage
            /\ UNCHANGED <<notes, selectedId, isEditing>>
       ELSE /\ notes' = RemainingNotes(notes, c.id)
            /\ selectedId' = IF c.sel = c.id THEN NoId ELSE selectedId
            /\ isEditing' = FALSE
            /\ UNCHANGED errorMsg
    /\ UNCHANGED <<env, search, loading, form, store, now, calls>>

(***************************************************************************)
(* The table executes a request that is in flight                          *)
(***************************************************************************)
SelectQuery(c) ==
    /\ c.kind = "list" /\ ~c.done
    /\ Answer(c, FALSE, OrderDesc(table))
    /\ UNCHANGED <<env, view, store, now, calls>>

InsertQuery(c) ==
    /\ c.kind = "insert" /\ ~c.done
    /\ table' = table \cup {InsertedRow(c)}
    /\ nextId' = nextId + 1
    /\ now' = now + 1
    /\ Answer(c, FALSE, <<InsertedRow(c)>>)
    /\ UNCHANGED <<env, view, calls>>

\* .update(...).eq("id", id).select() answers the rows it changed, none included
UpdateQuery(c) ==
    /\ c.kind = "update" /\ ~c.done
    /\ table' = (table \ Matching(c.sel)) \cup {UpdatedRow(r, c) : r \in Matching(c.sel)}
    /\ Answer(c, FALSE, OrderDesc({UpdatedRow(r, c) : r \in Matching(c.sel)}))
    /\ UNCHANGED <<env, view, nextId, now, calls>>

\* .delete().eq("id", id) of no row is no error
DeleteQuery(c) ==
    /\ c.kind = "delete" /\ ~c.done
    /\ table' = table \ Matching(c.id)
    /\ Answer(c, FALSE, << >>)
    /\ UNCHANGED <<env, view, nextId, now, calls>>

\* any request can fail: { data: null, error }
QueryFails(c) ==
    /\ ~c.done
    /\ Answer(c, TRUE, << >>)
    /\ UNCHANGED <<env, view, store, now, calls>>

(***************************************************************************)
(* Specification                                                           *)
(***************************************************************************)
Next ==
    \/ ImportResolved
    \/ \E c \in pending : FetchNotesDone(c)
    \/ HandleAddNote
    \/ \E c \in pending : HandleAddNoteDone(c)
    \/ \E note \in Range(notes) : HandleEditNote(note)
    \/ \E note \in Range(notes) : HandleSelectNote(note)
    \/ \E value \in TypedTitles : HandleFormChange("title", value)
    \/ \E value \in TypedBodies : HandleFormChange("body", value)
    \/ NewNote
    \/ Cancel
    \/ \E s \in TypedSearches : SetSearch(s)
    \/ HandleUpdateNote
    \/ \E c \in pending : HandleUpdateNoteDone(c)
    \/ \E note \in Range(notes), confirmed \in BOOLEAN : HandleDeleteNote(note, confirmed)
    \/ \E c \in pending : HandleDeleteNoteDone(c)
    \/ \E c \in pending : SelectQuery(c)
    \/ \E c \in pending : InsertQuery(c)
    \/ \E c \in pending : UpdateQuery(c)
    \/ \E c \in pending : DeleteQuery(c)
    \/ \E c \in pending : QueryFails(c)

Spec == Init /\ [][Next]_vars


(***************************************************************************)
(* Properties                                                              *)
(***************************************************************************)
\* the step on which the continuation of call c runs
Completed(c) == c \in pending /\ c.done /\ c \notin pending'

Succeeded(c, kind) == Completed(c) /\ c.kind = kind /\ ~c.error

Failed(c) == Completed(c) /\ c.error

\* C1: when a createNote call succeeds, the list becomes the created note
\* followed by exactly the notes the list held just before the response was
\* applied, in the same order, whatever completed between submit and response.
C1_CreatePrependsToCurrentList ==
    [][\A c \in pending : Succeeded(c, "insert") => notes' = <<c.data[1]>> \o notes]_vars

\* C2: after deleteNote(id) succeeds no note with that id is in the list, and
\* if that note is the selected one when the response is applied, selectedId
\* becomes none.
C2_DeleteRemovesAndDeselects ==
    [][\A c \in pending : Succeeded(c, "delete") =>
            /\ c.id \notin Ids(notes')
            /\ (selectedId = c.id => selectedId' = NoId)]_vars

Blank(s) == \A i \in 1..Len(s) : s[i] = " "

\* C4: a submit (create or update path) with an empty or whitespace-only title
\* issues no store call, sets the validation message and leaves the view in
\* Editing with list, selectedId and draft unchanged.
C4_BlankTitleIsRejected ==
    [][((HandleAddNote \/ HandleUpdateNote) /\ Blank(form.title)) =>
            /\ calls' = calls /\ pending' = pending
            /\ errorMsg' = TitleRequired
            /\ isEditing'
            /\ UNCHANGED <<notes, selectedId, form>>]_vars

\* the update form was submitted with a whitespace-only title
C4_Witness ==
    /\ errorMsg = TitleRequired
    /\ isEditing /\ selectedId # NoId /\ supabase
    /\ form.title = <<" ">>
    /\ pending = {} /\ calls = 1

\* C5: when an update submission of note id with title T and body B returns
\* the view to Browsing without an error, the in-memory note id has title T
\* and body B, every other note is unchanged, and length and id order are kept.
C5_UpdateMergesInPlace ==
    [][\A c \in pending : Succeeded(c, "update") =>
            /\ Len(notes') = Len(notes)
            /\ \A i \in 1..Len(notes) :
                  /\ notes'[i].id = notes[i].id
                  /\ IF notes[i].id = c.sel
                     THEN notes'[i].title = c.title /\ notes'[i].body = c.body
                     ELSE notes'[i] = notes[i]]_vars

\* C6: the in-memory list never holds two notes with the same id.
C6_NoDuplicateIds ==
    \A i, j \in 1..Len(notes) : i # j => notes[i].id # notes[j].id

\* two creates have been applied on top of the fetched list
C6_Witness ==
    /\ Len(notes) >= 2
    /\ calls = MaxCalls /\ pending = {}
    /\ Cardinality({r \in table : r.id > InitialRows}) = 2

\* C7: changing the search string issues no store call and leaves the list,
\* selectedId, the mode and the draft unchanged.
C7_SearchChangesNothingElse ==
    [][search' # search =>
            UNCHANGED <<notes, selectedId, isEditing, form, calls, pending, table>>]_vars

\* the search was changed while a note was being edited
C7_Witness ==
    /\ search # << >>
    /\ isEditing /\ selectedId # NoId
    /\ notes # << >> /\ filteredNotes # notes


(***************************************************************************)
(* The filter on its own: any fetched list, any search string              *)
(***************************************************************************)
\* notes in a fetched list
MaxList == 3

SampleNotes ==
    {[id |-> 1, title |-> <<"b", " ">>, body |-> NullStr, updated_at |-> 1],
     [id |-> 2, title |-> <<"B">>, body |-> <<"x", "A", "b">>, updated_at |-> 2],
     [id |-> 3, title |-> <<"A", "b">>, body |-> << >>, updated_at |-> 3],
     [id |-> 4, title |-> <<"a", "a", "B">>, body |-> <<"B", "a">>, updated_at |-> 4]}

SampleLists ==
    {l \in UNION {[1..n -> SampleNotes] : n \in 0..MaxList} :
        \A i, j \in 1..Len(l) : i # j => l[i].id # l[j].id}

SampleSearches ==
    {<< >>, <<"a", "B">>, <<"b">>, <<"B", "A">>, <<"x", "a">>, <<" ">>, <<"n", "u">>}

InitFilter ==
    /\ SUPABASE_URL = Present
    /\ SUPABASE_KEY = Present
    /\ importPending = FALSE
    /\ supabase = TRUE
    /\ notes \in SampleLists
    /\ selectedId = NoId
    /\ search = << >>
    /\ loading = FALSE
    /\ form = [title |-> << >>, body |-> << >>]
    /\ isEditing = FALSE
    /\ errorMsg = ""
    /\ table = Range(notes)
    /\ nextId = Cardinality(SampleNotes) + 1
    /\ now = Cardinality(SampleNotes)
    /\ calls = 1
    /\ pending = {}

NextFilter == \E s \in SampleSearches : SetSearch(s)

SpecFilter == InitFilter /\ [][NextFilter]_vars

\* the same letter, ignoring case
SameLetter(x, y) == x = y \/ {x, y} = {"a", "A"} \/ {x, y} = {"b", "B"}

\* s occurs in text at some offset, ignoring case; absent text is blank
Occurs(s, text) ==
    LET t == IF text = NullStr THEN << >> ELSE text
    IN \E k \in 0..(Len(t) - Len(s)) : \A j \in 1..Len(s) : SameLetter(t[k + j], s[j])

Hits == {i \in 1..Len(notes) : Occurs(search, notes[i].title) \/ Occurs(search, notes[i].body)}

\* the n-th smallest member of a set of positions
Nth(K, n) == CHOOSE i \in K : Cardinality({j \in K : j <= i}) = n

\* C8: the displayed list is exactly the subsequence of the in-memory list, in
\* the same order, of the notes whose title or body contains the search string
\* case-insensitively; with an empty search it is the full list.
C8_FilterIsTheMatchingSubsequence ==
    /\ Len(filteredNotes) = Cardinality(Hits)
    /\ \A n \in 1..Len(filteredNotes) : filteredNotes[n] = notes[Nth(Hits, n)]
    /\ (search = << >> => filteredNotes = notes)

\* a search in another case keeps the first and third of three notes and drops
\* the second, whose body is absent
C8_Witness ==
    /\ Len(notes) = 3
    /\ search = <<"a", "B">>
    /\ filteredNotes = <<notes[1], notes[3]>>
    /\ notes[2].body = NullStr


Chars == {"a", "A", "b", "B", "x", " "}

IsText(x) == x \in Seq(Chars)

\* every piece of the view state has a value of its kind
WellDefined ==
    /\ isEditing \in BOOLEAN
    /\ loading \in BOOLEAN
    /\ selectedId \in 0..(InitialRows + MaxCalls)
    /\ IsText(search)
    /\ DOMAIN form \in {{"title", "body"}, {"title", "content"}}
    /\ IsText(form.title)
    /\ errorMsg \in {"", TitleRequired, StoreErrorMessage}

ConfigurationMissing == SUPABASE_URL = Undefined \/ SUPABASE_KEY = Undefined

\* C10: with either configuration setting absent the store client never becomes
\* available: no store call is ever issued, the list stays empty, and the view
\* state stays well defined under every user action.
C10_MissingConfigurationDisablesStore ==
    ConfigurationMissing =>
        /\ ~supabase
        /\ calls = 0 /\ pending = {}
        /\ notes = << >> /\ selectedId = NoId
        /\ WellDefined

\* without the key, the user has searched, opened the editor and submitted a
\* whitespace-only title
C10_Witness ==
    /\ SUPABASE_URL = Present /\ SUPABASE_KEY = Undefined
    /\ ~importPending
    /\ isEditing
    /\ form.title = <<" ">>
    /\ search # << >>
    /\ errorMsg = TitleRequired


(***************************************************************************)
(* The submit path and the origin of the draft                             *)
(***************************************************************************)
\* a submit of a valid title with the client available
ValidSubmit == (HandleAddNote \/ HandleUpdateNote) /\ ~Blank(form.title) /\ supabase

\* the one call a step issues is c
Issues(c) == c \notin pending /\ pending' = pending \cup {c}

\* the editor is open on a selected note
EditingSelected == isEditing /\ selectedId # NoId

\* C11: a valid submit issues updateNote for selectedId when it is present and
\* createNote when it is absent, with the draft's title and body; the editor
\* opens on a selected note only with the draft copied from that note, and
\* while it stays open on it the draft changes only by the user's typing.
C11_SubmitFollowsSelectionAndDraft ==
    [][/\ ValidSubmit =>
            \E c \in pending' :
                /\ Issues(c)
                /\ c.title = form.title /\ c.body = FormBody(form)
                /\ IF selectedId # NoId
                   THEN c.kind = "update" /\ c.sel = selectedId
                   ELSE c.kind = "insert"
       /\ (EditingSelected' /\ (~isEditing \/ selectedId' # selectedId)) =>
            \E i \in 1..Len(notes) :
                notes[i].id = selectedId' /\ form' = DraftOf(notes[i])
       /\ (EditingSelected /\ EditingSelected' /\ selectedId' = selectedId /\ form' # form) =>
            /\ UNCHANGED <<notes, pending, calls>>
            /\ DOMAIN form' = DOMAIN form
            /\ \/ \E k \in DOMAIN form : \A j \in DOMAIN form \ {k} : form'[j] = form[j]
               \/ \E i \in 1..Len(notes) :
                     notes[i].id = selectedId /\ form' = DraftOf(notes[i])]_vars

\* an update of the selected note with the typed draft is in flight, after a
\* create was applied to the fetched list
C11_Witness ==
    /\ EditingSelected
    /\ Len(notes) >= 2
    /\ \E c \in pending :
          /\ c.kind = "update" /\ c.sel = selectedId
          /\ c.title = form.title /\ c.title = <<"A", "b">>
          /\ c.body = <<"B", "a">>
    /\ \E i \in 1..Len(notes) : notes[i].id = selectedId /\ notes[i].title # form.title


(***************************************************************************)
(* Timestamps and order                                                    *)
(***************************************************************************)
\* C12: after every successful update of a note, the note's updated_at in the
\* in-memory list is strictly greater than the value it had before.
C12_UpdateAdvancesUpdatedAt ==
    [][\A c \in pending : Succeeded(c, "update") =>
            \A i \in 1..Len(notes) :
                notes[i].id = c.sel =>
                    /\ i <= Len(notes')
                    /\ notes'[i].updated_at > notes[i].updated_at]_vars


(***************************************************************************)
(* Selection                                                               *)
(***************************************************************************)
\* C13: selectedId is none or the id of a note in the in-memory list.
C13_SelectionIsInList == selectedId = NoId \/ selectedId \in Ids(notes)

\* C14: a successful delete(id) of a note that is not the selected one when the
\* response is applied leaves selectedId, the mode and the draft unchanged.
C14_DeleteOfOtherNoteKeepsEditor ==
    [][\A c \in pending : (Succeeded(c, "delete") /\ selectedId # c.id) =>
            UNCHANGED <<selectedId, isEditing, form>>]_vars


(***************************************************************************)
(* One client, one store call in flight at a time, and an initial fetch    *)
(* that succeeds                                                           *)
(***************************************************************************)
Serial == Cardinality(pending') <= 1

LoadSucceeds == \A c \in pending' : c.kind = "list" => ~c.error

\* a step of the view that keeps to the two restrictions
Restricted(Step) == Step /\ Serial /\ LoadSucceeds

NextSerial ==
    \/ Restricted(ImportResolved)
    \/ \E c \in pending : Restricted(FetchNotesDone(c))
    \/ Restricted(HandleAddNote)
    \/ \E c \in pending : Restricted(HandleAddNoteDone(c))
    \/ \E note \in Range(notes) : Restricted(HandleEditNote(note))
    \/ \E note \in Range(notes) : Restricted(HandleSelectNote(note))
    \/ \E value \in TypedTitles : Restricted(HandleFormChange("title", value))
    \/ \E value \in TypedBodies : Restricted(HandleFormChange("body", value))
    \/ Restricted(NewNote)
    \/ Restricted(Cancel)
    \/ \E s \in TypedSearches : Restricted(SetSearch(s))
    \/ Restricted(HandleUpdateNote)
    \/ \E c \in pending : Restricted(HandleUpdateNoteDone(c))
    \/ \E note \in Range(notes), confirmed \in BOOLEAN :
          Restricted(HandleDeleteNote(note, confirmed))
    \/ \E c \in pending : Restricted(HandleDeleteNoteDone(c))
    \/ \E c \in pending : Restricted(SelectQuery(c))
    \/ \E c \in pending : Restricted(InsertQuery(c))
    \/ \E c \in pending : Restricted(UpdateQuery(c))
    \/ \E c \in pending : Restricted(DeleteQuery(c))
    \/ \E c \in pending : Restricted(QueryFails(c))

SpecSerial == Init /\ [][NextSerial]_vars

\* what the view shows of a note
Content(n) == [id |-> n.id, title |-> n.title, body |-> n.body]

\* C15: with one call in flight at a time and a successful initial load,
\* whenever no call is in flight the in-memory list holds exactly the notes of
\* the remote table: the same ids, each with the same title and body.
C15_ListMirrorsTable ==
    (supabase /\ ~loading /\ pending = {}) =>
        /\ Len(notes) = Cardinality(table)
        /\ {Content(notes[i]) : i \in 1..Len(notes)} = {Content(r) : r \in table}

\* a create and then an update of the fetched note have been applied
C15_Witness ==
    /\ supabase /\ ~loading /\ pending = {}
    /\ calls = MaxCalls
    /\ Len(notes) >= 2
    /\ \E i \in 1..Len(notes) :
          /\ notes[i].id <= InitialRows
          /\ notes[i].title = <<"A", "b">> /\ notes[i].body = <<"B", "a">>


(***************************************************************************)
(* Order of the list                                                       *)
(***************************************************************************)
\* newest first
Ordered(list) ==
    \A i, j \in 1..Len(list) : i < j => list[i].updated_at >= list[j].updated_at

\* the initial fetch has been applied and its rows are in the list
LoadedRows == ~loading /\ \E i \in 1..Len(notes) : notes[i].id <= InitialRows

\* C16 as stated: after a successful initial load the in-memory list is ordered
\* by updated_at descending in every state, across creates, updates and deletes.
C16_ListIsOrdered == LoadedRows => Ordered(notes)

\* the lists that handlers in flight will prepend to
OrderedClosures == \A c \in pending : c.kind = "insert" => Ordered(c.notes)

\* C16 as amended: the list is ordered by updated_at descending after the
\* initial load and every step other than the application of a successful
\* update keeps it ordered; an update merges in place and does not reorder.
C16_OrderKeptExceptByUpdate ==
    [][(/\ Ordered(notes) /\ OrderedClosures
        /\ ~\E c \in pending : Succeeded(c, "update")) =>
            (Ordered(notes') /\ OrderedClosures')]_vars

\* two creates have been applied, one after the other, on the fetched list
C16_Witness ==
    /\ LoadedRows /\ pending = {}
    /\ Len(notes) = InitialRows + 2
    /\ \A i \in 1..(Len(notes) - 1) : notes[i].updated_at > notes[i + 1].updated_at


(***************************************************************************)
(* Progress: the import resolves, the table answers every request, and the *)
(* continuation of an answered call runs                                   *)
(***************************************************************************)
ListAnswered == \E c \in pending : c.kind = "list" /\ (SelectQuery(c) \/ QueryFails(c))

ListReturns == \E c \in pending : FetchNotesDone(c)

OtherAnswered ==
    \E c \in pending :
        c.kind # "list" /\ (InsertQuery(c) \/ UpdateQuery(c) \/ DeleteQuery(c) \/ QueryFails(c))

OtherReturns ==
    \E c \in pending :
        HandleAddNoteDone(c) \/ HandleUpdateNoteDone(c) \/ HandleDeleteNoteDone(c)

SpecLive ==
    /\ Init /\ [][Next]_vars
    /\ WF_vars(ImportResolved)
    /\ WF_vars(ListAnswered) /\ WF_vars(ListReturns)
    /\ WF_vars(OtherAnswered) /\ WF_vars(OtherReturns)

\* C17: if the store client becomes available and every store call eventually
\* returns, loading eventually becomes false, and once false it never becomes
\* true again.
C17_LoadingEnds ==
    /\ ~ConfigurationMissing => <>(~loading)
    /\ [][~loading => ~loading']_vars

\* the fetch and every later call have returned
C17_Witness == supabase /\ ~loading /\ pending = {} /\ calls = MaxCalls

====
